---- MODULE Spec2Model ----
(***************************************************************************)
(* Model of the job-search aggregation client (JobSearchClient.py) and of *)
(* the job-search graph of main.py (extract_skills -> search_jobs ->      *)
(* format_jobs) together with the "Fetch Recent Jobs" tab that invokes it. *)
(*                                                                         *)
(* Python strings are modelled as sequences of one-character strings, so   *)
(* that slicing, lower(), substring tests, join and split are computed.    *)
(* Python dicts are records; a key that is absent from the dict is absent  *)
(* from the record's DOMAIN.  Values whose Python type matters (a title    *)
(* that is None, a payload that is not a dict) carry a "py" tag.           *)
(***************************************************************************)
EXTENDS Integers, Sequences, FiniteSets, TLC

(* ------------------------------ bounds -------------------------------- *)
\* longest raw result list a provider answers with
MaxRaw == 2
\* largest max_results a direct caller passes
MaxK == 2
\* how many characters beyond the Tavily limit the longest query has
MaxOver == 1

\* how many threads call log_api_usage
MaxThreads == 2
\* how many times each of them calls it
MaxLogCalls == 2
\* the largest token count of one call
MaxTokens == 1

(* ------------------------- program constants -------------------------- *)
max_retries == 3
retry_delay == 2
QueryLimit == 400
\* maxconn of DB_POOL
MaxConn == 10
CompanyWidth == 50
NodeMaxResults == 10

(* --------------------------- string helpers --------------------------- *)
Min(a, b) == IF a <= b THEN a ELSE b
Max(a, b) == IF a >= b THEN a ELSE b

\* a slice that does not cut
SliceAll(s, k) == s

\* s[:k] of Python, negative k included
Slice(s, k) ==
    IF k >= 0 THEN SubSeq(s, 1, Min(k, Len(s)))
              ELSE SubSeq(s, 1, Max(Len(s) + k, 0))

\* str.lower() on the characters that occur in the model
LowerChar(c) ==
    CASE c = "A" -> "a" [] c = "B" -> "b" [] c = "C" -> "c" [] c = "D" -> "d"
      [] c = "E" -> "e" [] c = "F" -> "f" [] c = "G" -> "g" [] c = "H" -> "h"
      [] c = "I" -> "i" [] c = "J" -> "j" [] c = "K" -> "k" [] c = "L" -> "l"
      [] c = "M" -> "m" [] c = "N" -> "n" [] c = "O" -> "o" [] c = "P" -> "p"
      [] c = "Q" -> "q" [] c = "R" -> "r" [] c = "S" -> "s" [] c = "T" -> "t"
      [] c = "U" -> "u" [] c = "V" -> "v" [] c = "W" -> "w" [] c = "X" -> "x"
      [] c = "Y" -> "y" [] c = "Z" -> "z" [] OTHER -> c
Lower(s) == [i \in 1..Len(s) |-> LowerChar(s[i])]

\* sub in s
Contains(s, sub) ==
    \E i \in 0..(Len(s) - Len(sub)) : SubSeq(s, i + 1, i + Len(sub)) = sub

\* dict.get(key, default)
Get(d, key, default) == IF key \in DOMAIN d THEN d[key] ELSE default

Str(s) == [py |-> "str", s |-> s]
None == [py |-> "None"]
NA == <<"N", "/", "A">>
Hash == <<"#">>
India == <<"I", "n", "d", "i", "a">>
RegionQualifier == <<" ", "j", "o", "b", "s", " ", "I", "n", "d", "i", "a">>

JobKeywords ==
    { <<"j", "o", "b">>,
      <<"h", "i", "r", "i", "n", "g">>,
      <<"v", "a", "c", "a", "n", "c", "y">>,
      <<"c", "a", "r", "e", "e", "r">>,
      <<"r", "e", "c", "r", "u", "i", "t", "m", "e", "n", "t">> }

\* any(keyword in title.lower() for keyword in [...])
IsJobTitle(title) == \E keyword \in JobKeywords : Contains(Lower(title), keyword)

(* ---------------------- what a provider can answer -------------------- *)
SeqsUpTo(S, n) == UNION {[1..k -> S] : k \in 0..n}

PyList(l) == [py |-> "list", l |-> l]

\* raw result records of Tavily: a dict with title / source / snippet / url
TavilyRawPool ==
    { [title |-> Str(<<"J", "o", "b">>), source |-> <<"n", "k">>, url |-> <<"u", "1">>],
      [title |-> Str(<<"H", "I", "R", "I", "N", "G">>), snippet |-> <<"a", "b">>, url |-> <<"u", "2">>],
      [title |-> Str(<<"N", "e", "w", "s">>), source |-> <<>>, snippet |-> <<"c", "d">>],
      [url |-> <<"u", "4">>] }

\* what self.tavily_client.search(**search_params) can do: raise, return
\* something that is not a dict, or return a dict with or without "results"
TavilyResponses ==
    { [py |-> "raise", e |-> "ConnectionError"], [py |-> "None"] }
    \cup { [py |-> "dict", d |-> [answer |-> <<>>]],
           [py |-> "dict", d |-> [results |-> [py |-> "int"]]] }
    \cup { [py |-> "dict", d |-> [results |-> PyList(l)]] : l \in SeqsUpTo(TavilyRawPool, MaxRaw) }

\* raw result records of Serper: a dict with title / snippet / link
SerperRawPool ==
    { [title |-> Str(<<"C", "a", "r", "e", "e", "r", "s">>),
       snippet |-> <<"A", "c", " ", "-", " ", "x">>, link |-> <<"l", "1">>],
      [title |-> Str(<<"v", "a", "c", "a", "n", "c", "y">>), link |-> <<"l", "2">>],
      [title |-> Str(<<"B", "l", "o", "g">>), snippet |-> <<"e">>, link |-> <<"l", "3">>],
      [snippet |-> <<"f">>] }

\* what response.json() can do on a 200 response
SerperJson ==
    { [py |-> "raise", e |-> "JSONDecodeError"], [py |-> "None"] }
    \cup { [py |-> "dict", d |-> [searchParameters |-> <<>>]],
           [py |-> "dict", d |-> [organic |-> [py |-> "int"]]] }
    \cup { [py |-> "dict", d |-> [organic |-> PyList(l)]] : l \in SeqsUpTo(SerperRawPool, MaxRaw) }

\* what requests.post(url, headers=headers, json=payload) can do
SerperResponses ==
    { [py |-> "raise", e |-> "ConnectionError"] }
    \cup { [py |-> "response", status_code |-> 500, json |-> [py |-> "None"]] }
    \cup { [py |-> "response", status_code |-> 200, json |-> j] : j \in SerperJson }

(* --------------------- JobSearchClient: the adapters ------------------ *)
Return(v) == [kind |-> "return", value |-> v]
Raise(e) == [kind |-> "raise", e |-> e]

\* search_params of one Tavily attempt
TavilySearchParams(query, max_results) ==
    LET truncated_query == IF Len(query) > QueryLimit THEN SubSeq(query, 1, QueryLimit) ELSE query
    IN  [query |-> truncated_query \o RegionQualifier, max_results |-> max_results]

TavilyListing(result) ==
    LET source == Get(result, "source", NA) IN
    [title |-> Get(result, "title", Str(NA)).s,
     company |-> IF source # <<>> THEN source ELSE Slice(Get(result, "snippet", NA), CompanyWidth),
     location |-> India,
     link |-> Get(result, "url", Hash)]

\* the loop of the adapter without the keyword test
TavilyKeepAll(result) == TRUE

TavilyKeep(result) == IsJobTitle(Get(result, "title", Str(NA)).s)

\* a try block that takes a response that is not a dict for an empty one
TavilyTryLenient(response, max_results) ==
    IF response.py = "raise" THEN Raise(response.e)
    ELSE IF response.py # "dict" THEN Return(<<>>)
    ELSE LET results == Get(response.d, "results", PyList(<<>>)) IN
         IF results = PyList(<<>>) THEN Return(<<>>)
         ELSE IF results.py # "list" THEN Raise("TypeError")
         ELSE LET kept == SelectSeq(Slice(results.l, max_results), TavilyKeep)
              IN  Return([i \in 1..Len(kept) |-> TavilyListing(kept[i])])

\* a try block that filters all records and cuts afterwards
TavilyTryFilterFirst(response, max_results) ==
    IF response.py = "raise" THEN Raise(response.e)
    ELSE IF response.py # "dict" THEN Raise("AttributeError")
    ELSE LET results == Get(response.d, "results", PyList(<<>>)) IN
         IF results = PyList(<<>>) THEN Return(<<>>)
         ELSE IF results.py # "list" THEN Raise("TypeError")
         ELSE LET kept == Slice(SelectSeq(results.l, TavilyKeep), max_results)
              IN  Return([i \in 1..Len(kept) |-> TavilyListing(kept[i])])

\* a try block that raises when the provider has no results
TavilyTryRetriesEmpty(response, max_results) ==
    IF response.py = "raise" THEN Raise(response.e)
    ELSE IF response.py # "dict" THEN Raise("AttributeError")
    ELSE LET results == Get(response.d, "results", PyList(<<>>)) IN
         IF results = PyList(<<>>) THEN Raise("ValueError")
         ELSE IF results.py # "list" THEN Raise("TypeError")
         ELSE LET kept == SelectSeq(Slice(results.l, max_results), TavilyKeep)
              IN  Return([i \in 1..Len(kept) |-> TavilyListing(kept[i])])

Reverse(l) == [i \in 1..Len(l) |-> l[Len(l) + 1 - i]]

\* a try block that hands the listings back last first
TavilyTryReversed(response, max_results) ==
    IF response.py = "raise" THEN Raise(response.e)
    ELSE IF response.py # "dict" THEN Raise("AttributeError")
    ELSE LET results == Get(response.d, "results", PyList(<<>>)) IN
         IF results = PyList(<<>>) THEN Return(<<>>)
         ELSE IF results.py # "list" THEN Raise("TypeError")
         ELSE LET kept == Reverse(SelectSeq(Slice(results.l, max_results), TavilyKeep))
              IN  Return([i \in 1..Len(kept) |-> TavilyListing(kept[i])])

\* the body of the try block of _make_tavily_request from the response on
TavilyTry(response, max_results) ==
    IF response.py = "raise" THEN Raise(response.e)
    ELSE IF response.py # "dict" THEN Raise("AttributeError")
    ELSE LET results == Get(response.d, "results", PyList(<<>>)) IN
         IF results = PyList(<<>>) THEN Return(<<>>)
         ELSE IF results.py # "list" THEN Raise("TypeError")
         ELSE LET considered == Slice(results.l, max_results) IN
              IF \E i \in 1..Len(considered) : Get(considered[i], "title", Str(NA)) = None
              THEN Raise("AttributeError")
              ELSE LET kept == SelectSeq(considered, TavilyKeep)
                   IN  Return([i \in 1..Len(kept) |-> TavilyListing(kept[i])])

\* payload of one Serper attempt
SerperPayload(query, max_results) ==
    [q |-> query \o RegionQualifier, num |-> max_results]

Dash == <<" ", "-", " ">>

\* snippet.split(" - ")[0]
BeforeDash(snippet) ==
    LET i == CHOOSE j \in 1..(Len(snippet) - Len(Dash) + 1) :
                 /\ SubSeq(snippet, j, j + Len(Dash) - 1) = Dash
                 /\ \A m \in 1..(j - 1) : SubSeq(snippet, m, m + Len(Dash) - 1) # Dash
    IN  SubSeq(snippet, 1, i - 1)

SerperListing(job) ==
    LET snippet == Get(job, "snippet", NA) IN
    [title |-> Get(job, "title", Str(NA)).s,
     company |-> IF Contains(snippet, Dash) THEN BeforeDash(snippet) ELSE Slice(snippet, CompanyWidth),
     location |-> India,
     link |-> Get(job, "link", Hash)]

SerperKeep(job) == IsJobTitle(Get(job, "title", Str(NA)).s)

SerperStatusError(status_code) ==
    [error |-> [text |-> "Serper API failed:", status_code |-> status_code]]

\* the body of the try block of _make_serper_request from the response on
SerperTry(response, max_results) ==
    IF response.py = "raise" THEN Raise(response.e)
    ELSE IF response.status_code = 200 THEN
         LET data == response.json IN
         IF data.py = "raise" THEN Raise(data.e)
         ELSE IF data.py # "dict" THEN Raise("AttributeError")
         ELSE LET jobs == Get(data.d, "organic", PyList(<<>>)) IN
              IF jobs = PyList(<<>>) THEN Return(<<>>)
              ELSE IF jobs.py # "list" THEN Raise("TypeError")
              ELSE LET considered == Slice(jobs.l, max_results) IN
                   IF \E i \in 1..Len(considered) : Get(considered[i], "title", Str(NA)) = None
                   THEN Raise("AttributeError")
                   ELSE LET kept == SelectSeq(considered, SerperKeep)
                        IN  Return([i \in 1..Len(kept) |-> SerperListing(kept[i])])
    ELSE Return(<<SerperStatusError(response.status_code)>>)

\* an except clause that lets the exception of the last attempt go
ExceptClauseReraise(provider, attempt, e) ==
    IF attempt < max_retries - 1
    THEN [kind |-> "sleep"]
    ELSE Raise(e)

\* an except clause that gives up at the first exception
ExceptClauseNoRetry(provider, attempt, e) ==
    Return(<<[error |-> [text |-> provider, attempts |-> max_retries, e |-> e]]>>)

\* an except clause that reports the loop index as the attempt count
ExceptClauseMiscounts(provider, attempt, e) ==
    IF attempt < max_retries - 1
    THEN [kind |-> "sleep"]
    ELSE Return(<<[error |-> [text |-> provider, attempts |-> attempt, e |-> e]]>>)

\* an except clause whose test of the last attempt is off by one
ExceptClauseOffByOne(provider, attempt, e) ==
    IF attempt < max_retries
    THEN [kind |-> "sleep"]
    ELSE Return(<<[error |-> [text |-> provider, attempts |-> max_retries, e |-> e]]>>)

\* an except clause that answers the last exception with an empty list
ExceptClauseReturnsEmpty(provider, attempt, e) ==
    IF attempt < max_retries - 1
    THEN [kind |-> "sleep"]
    ELSE Return(<<>>)

\* an except clause that sleeps after the last attempt as well
ExceptClauseAlwaysSleeps(provider, attempt, e) == [kind |-> "sleep"]

\* the except clause of both adapters: sleep and go round again, or give
\* the error record back after the last attempt
ExceptClause(provider, attempt, e) ==
    IF attempt < max_retries - 1
    THEN [kind |-> "sleep"]
    ELSE Return(<<[error |-> [text |-> provider, attempts |-> max_retries, e |-> e]]>>)

\* an attempt fails when its call or its parsing raises, or (Serper) when
\* the status is not 200
AttemptFailed(response, tried) ==
    \/ tried.kind = "raise"
    \/ response.py = "response" /\ response.status_code # 200

\* the check of the coordinator without its look at the "error" key
UsableNonEmpty(job_listings) == job_listings # <<>>

\* job_listings and "error" not in job_listings[0]
Usable(job_listings) == job_listings # <<>> /\ "error" \notin DOMAIN job_listings[1]

SampleLink ==
    <<"h", "t", "t", "p", "s", ":", "/", "/", "w", "w", "w", ".", "e", "x", "a", "m", "p", "l", "e", ".", "c", "o", "m", "/", "a", "p", "p", "l", "y">>

SampleJobs ==
    << [title |-> <<"S", "a", "m", "p", "l", "e", " ", "D", "a", "t", "a", " ",
                    "S", "c", "i", "e", "n", "t", "i", "s", "t">>,
        company |-> <<"S", "a", "m", "p", "l", "e", " ", "C", "o", "m", "p", "a", "n", "y">>,
        location |-> India,
        link |-> SampleLink],
       [title |-> <<"S", "a", "m", "p", "l", "e", " ", "S", "o", "f", "t", "w", "a", "r", "e", " ",
                    "E", "n", "g", "i", "n", "e", "e", "r">>,
        company |-> <<"S", "a", "m", "p", "l", "e", " ", "T", "e", "c", "h", " ", "I", "n", "c", ".">>,
        location |-> India,
        link |-> SampleLink] >>

(* ------------------- main.py: the job-search graph -------------------- *)
IsSpace(c) == c \in {" ", "\t", "\n"}

RECURSIVE Strip(_)
\* str.strip()
Strip(s) ==
    IF s = <<>> THEN s
    ELSE IF IsSpace(s[1]) THEN Strip(Tail(s))
    ELSE IF IsSpace(s[Len(s)]) THEN Strip(SubSeq(s, 1, Len(s) - 1))
    ELSE s

RECURSIVE SplitComma(_)
\* str.split(",")
SplitComma(s) ==
    IF \A i \in 1..Len(s) : s[i] # ","
    THEN <<s>>
    ELSE LET i == CHOOSE j \in 1..Len(s) : s[j] = "," /\ \A m \in 1..(j - 1) : s[m] # ","
         IN  <<SubSeq(s, 1, i - 1)>> \o SplitComma(SubSeq(s, i + 1, Len(s)))

RECURSIVE SplitWhitespace(_)
\* str.split() without arguments
SplitWhitespace(s) ==
    IF s = <<>> THEN <<>>
    ELSE IF IsSpace(s[1]) THEN SplitWhitespace(Tail(s))
    ELSE LET n == CHOOSE k \in 1..Len(s) :
                      /\ \A m \in 1..k : ~IsSpace(s[m])
                      /\ (k = Len(s) \/ IsSpace(s[k + 1]))
         IN  <<SubSeq(s, 1, n)>> \o SplitWhitespace(SubSeq(s, n + 1, Len(s)))

RECURSIVE Join(_)
\* ", ".join(skills)
Join(parts) ==
    IF parts = <<>> THEN <<>>
    ELSE IF Len(parts) = 1 THEN parts[1]
    ELSE parts[1] \o <<",", " ">> \o Join(Tail(parts))

NonEmptyStripped(piece) == Strip(piece) # <<>>

\* [skill.strip() for skill in skills_response.split(",") if skill.strip()]
CleanSplit(skills_response) ==
    LET pieces == SelectSeq(SplitComma(skills_response), NonEmptyStripped)
    IN  [i \in 1..Len(pieces) |-> Strip(pieces[i])]

JsonSkills == <<"{", "\"", "s", "k", "i", "l", "l", "s", "\"", ":", " ", "[", "\"", "G", "o", "\"", "]", "}">>
JsonNoSkills == <<"{", "}">>
BadJson == <<"{", "S", "Q", "L">>

\* json.loads on the responses of the model that contain "{"
JsonLoads(text) ==
    IF text = JsonSkills THEN Return([skills |-> <<<<"G", "o">>>>])
    ELSE IF text = JsonNoSkills THEN Return([note |-> <<>>])
    ELSE Raise("JSONDecodeError")

\* what get_gemini_response can return for the skill-extraction prompt
GeminiResponses ==
    { <<"S", "Q", "L", ",", " ", "A", "W", "S">>, <<" ", ",">>, JsonSkills, JsonNoSkills, BadJson }

\* the resume text and the job field the user can have entered in the tab
ResumeTexts == { <<>>, <<"c", "v">> }
JobFields == { <<>>, <<"D", "S">>, <<"M", "L", " ", "o", "p", "s">> }

\* the body of extract_skills when resume_text is present
ParseSkills(skills_response) ==
    IF Contains(skills_response, <<"{">>)
    THEN LET loaded == JsonLoads(skills_response) IN
         IF loaded.kind = "raise" THEN CleanSplit(skills_response)
         ELSE Get(loaded.value, "skills", <<>>)
    ELSE CleanSplit(skills_response)

NoQueryError ==
    [error |-> [text |-> "No skills or job field provided. Please enter a job field or upload a resume."]]

\* a query that prefers the job field to the skills
NodeQueryFieldFirst(skills, job_field) == IF job_field # <<>> THEN job_field ELSE Join(skills)

\* query = ", ".join(skills) if skills else job_field
NodeQuery(skills, job_field) == IF skills # <<>> THEN Join(skills) ELSE job_field

ApplyLink(link) == <<"<", "a", " ", "h", "r", "e", "f", "=", "'">> \o link \o <<"'", " ", "t", "a", "r", "g", "e", "t", "=", "'", "_", "b", "l", "a", "n", "k", "'", ">", "A", "p", "p", "l", "y", " ", "H", "e", "r", "e", "<", "/", "a", ">">>

\* a formatted record that keeps the bare link next to the anchor
FormatJobKeepsLink(job) ==
    [title |-> Get(job, "title", NA),
     company |-> Get(job, "company", NA),
     location |-> Get(job, "location", India),
     link |-> Get(job, "link", Hash),
     apply_link |-> ApplyLink(Get(job, "link", Hash))]

FormatJob(job) ==
    [title |-> Get(job, "title", NA),
     company |-> Get(job, "company", NA),
     location |-> Get(job, "location", India),
     apply_link |-> ApplyLink(Get(job, "link", Hash))]

(* ------------------------------- state -------------------------------- *)
VARIABLES
    caller,              \* "direct": search_jobs of the client is called; "tab": the Fetch Recent Jobs tab
    tavily_api_key,      \* self.tavily_api_key
    serper_api_key,      \* self.serper_api_key
    tavily_client,       \* self.tavily_client: "TavilyClient" or "None"
    query,               \* argument of the running JobSearchClient.search_jobs call
    max_results,         \* argument of the running JobSearchClient.search_jobs call
    pc,                  \* position of the single thread of control
    attempt,             \* loop variable of the running adapter
    job_listings,        \* local job_listings of JobSearchClient.search_jobs
    result,              \* value returned by the last JobSearchClient.search_jobs call
    tavily_calls,        \* Tavily network calls of the running call
    tavily_failed,       \* those of them that failed
    serper_calls,        \* Serper network calls of the running call
    serper_failed,       \* those of them that failed
    tavily_invocations,  \* calls of _make_tavily_request in the running call
    serper_invocations,  \* calls of _make_serper_request in the running call
    tavily_delays,       \* time.sleep(retry_delay) calls of the Tavily adapter
    serper_delays,       \* time.sleep(retry_delay) calls of the Serper adapter
    tavily_request,      \* last search_params sent to Tavily
    serper_request,      \* last payload sent to Serper
    raw,                 \* response under the hands of the adapter that has just returned
    tavily_outcome,      \* how _make_tavily_request ended: "not_called", "listings", "empty", "error"
    serper_outcome,      \* how _make_serper_request ended, likewise
    returned_by,         \* return statement search_jobs left by: "none", "tavily", "serper", "sample"
    resume_text,         \* state["resume_text"]
    job_field,           \* state["job_field"]
    skills,              \* state["skills"]
    state_job_listings,  \* state["job_listings"]
    client_calls,        \* JobSearchClient.search_jobs calls made so far
    shown,               \* what the tab has rendered: "nothing", "listings" or "error"
    log_rows,            \* data rows of LOG_FILE, oldest first
    csv_lock,            \* csv_lock: the thread that holds it, 0 when free
    log_pc,              \* position of each thread in log_api_usage
    current_total,       \* local current_total of each thread
    tokens_generated,    \* argument tokens_generated of each thread's running call
    log_calls,           \* log_api_usage calls each thread has made
    authenticated,       \* st.session_state.authenticated
    username,            \* st.session_state.username
    selected_tab,        \* st.session_state.selected_tab
    otp_sent,            \* st.session_state.otp_sent
    phone_number,        \* st.session_state.phone_number
    temp_username,       \* st.session_state.temp_username
    users,               \* rows of the users table
    checked_out,         \* connections taken from DB_POOL and not put back
    verification_check   \* the Twilio check of the handler that has just run

vars == <<caller, tavily_api_key, serper_api_key, tavily_client, query, max_results, pc, attempt,
          job_listings, result, tavily_calls, tavily_failed, serper_calls, serper_failed, tavily_invocations, serper_invocations,
          tavily_delays, serper_delays, tavily_request, serper_request, raw, tavily_outcome,
          serper_outcome, returned_by, resume_text, job_field, skills, state_job_listings,
          client_calls, shown, log_rows, csv_lock, log_pc, current_total, tokens_generated,
          log_calls, authenticated, username, selected_tab, otp_sent, phone_number,
          temp_username, users, checked_out, verification_check>>

clientFields == <<tavily_api_key, serper_api_key, tavily_client>>
callArgs == <<query, max_results>>
tavilyVars == <<tavily_calls, tavily_failed, tavily_invocations, tavily_delays, tavily_request,
                tavily_outcome>>
serperVars == <<serper_calls, serper_failed, serper_invocations, serper_delays, serper_request,
                serper_outcome>>
adapterVars == <<attempt, raw, tavilyVars, serperVars>>
graphVars == <<resume_text, job_field, skills, state_job_listings, shown>>
logVars == <<log_rows, csv_lock, log_pc, current_total, tokens_generated, log_calls>>

appVars == <<authenticated, username, selected_tab, otp_sent, phone_number, temp_username,
             users, checked_out, verification_check>>

\* lines 436-445 of app.py: the session of a visitor who has just arrived,
\* and a pool with every connection in it
SessionDefaults ==
    /\ authenticated = FALSE
    /\ username = None
    /\ selected_tab = "Login"
    /\ otp_sent = FALSE
    /\ phone_number = None
    /\ temp_username = [py |-> "unset"]
    /\ checked_out = 0
    /\ verification_check = None

LogThreads == 1..MaxThreads

\* lines 87-95 of app.py, 49-57 of main.py: the lock is made, the log file
\* has its header row and no thread is inside log_api_usage
LogSetup ==
    /\ log_rows = <<>>
    /\ csv_lock = 0
    /\ log_pc = [t \in LogThreads |-> "idle"]
    /\ current_total = [t \in LogThreads |-> 0]
    /\ tokens_generated = [t \in LogThreads |-> 0]
    /\ log_calls = [t \in LogThreads |-> 0]

\* an API key as the environment supplies it: empty, or set
ApiKeys == { <<>>, <<"k">> }

LongQuery(n) == [i \in 1..n |-> "x"]

\* queries a direct caller passes
DirectQueries ==
    { <<>>, <<"D", "S">>, LongQuery(QueryLimit) }
    \cup { LongQuery(QueryLimit + over) : over \in 1..MaxOver }

\* max_results a direct caller passes
DirectMaxResults == 0..MaxK

\* a constructor that builds the Tavily client without looking at the key
ClientInitAlwaysBuilds(tk, sk) ==
    /\ tavily_api_key = tk
    /\ serper_api_key = sk
    /\ tavily_client = "TavilyClient"

\* JobSearchClient.__init__
ClientInit(tk, sk) ==
    /\ tavily_api_key = tk
    /\ serper_api_key = sk
    /\ tavily_client = IF tk # <<>> THEN "TavilyClient" ELSE "None"

Init ==
    /\ \E tk \in ApiKeys, sk \in ApiKeys : ClientInit(tk, sk)
    /\ \/ /\ caller = "direct"
          /\ query \in DirectQueries
          /\ max_results \in DirectMaxResults
          /\ resume_text = <<>>
          /\ job_field = <<>>
          /\ pc = "search_jobs"
          /\ client_calls = 1
       \/ /\ caller = "tab"
          /\ query = <<>>
          /\ max_results = NodeMaxResults
          /\ resume_text \in ResumeTexts
          /\ job_field \in JobFields
          /\ pc = "tab"
          /\ client_calls = 0
    /\ attempt = 0
    /\ job_listings = <<>>
    /\ result = <<>>
    /\ tavily_calls = 0
    /\ tavily_failed = 0
    /\ serper_calls = 0
    /\ serper_failed = 0
    /\ tavily_invocations = 0
    /\ serper_invocations = 0
    /\ tavily_delays = 0
    /\ serper_delays = 0
    /\ tavily_request = None
    /\ serper_request = None
    /\ raw = None
    /\ tavily_outcome = "not_called"
    /\ serper_outcome = "not_called"
    /\ returned_by = "none"
    /\ skills = <<>>
    /\ state_job_listings = <<>>
    /\ shown = "nothing"
    /\ LogSetup
    /\ SessionDefaults
    /\ users = {}

(* ------------------- JobSearchClient.search_jobs ---------------------- *)
\* how an adapter's return value reads to its caller
OutcomeOf(value) ==
    IF value = <<>> THEN "empty"
    ELSE IF "error" \in DOMAIN value[1] THEN "error"
    ELSE "listings"

\* lines 118-122: job_listings = []; if self.tavily_client: call the adapter
SearchJobsEnter ==
    /\ pc = "search_jobs"
    /\ job_listings' = <<>>
    /\ IF tavily_client # "None"
       THEN /\ pc' = "tavily"
            /\ attempt' = 0
            /\ tavily_invocations' = tavily_invocations + 1
       ELSE /\ pc' = "serper_check"
            /\ UNCHANGED <<attempt, tavily_invocations>>
    /\ UNCHANGED <<appVars, logVars, caller, clientFields, callArgs, result, returned_by, raw, tavily_calls,
                   tavily_failed, tavily_delays, tavily_request, tavily_outcome, serperVars,
                   graphVars, client_calls>>

\* a loop that goes round again after an attempt that completed
TavilyAttemptGoesOn ==
    /\ pc = "tavily"
    /\ attempt < max_retries
    /\ \E response \in TavilyResponses :
         LET tried == TavilyTry(response, max_results)
             outcome == IF tried.kind = "raise"
                        THEN ExceptClause("Tavily API failed after", attempt, tried.e)
                        ELSE tried
         IN  /\ tavily_request' = TavilySearchParams(query, max_results)
             /\ tavily_calls' = tavily_calls + 1
             /\ tavily_failed' = tavily_failed + (IF AttemptFailed(response, tried) THEN 1 ELSE 0)
             /\ IF outcome.kind = "sleep" \/ attempt < max_retries - 1
                THEN /\ tavily_delays' = tavily_delays + (IF outcome.kind = "sleep" THEN 1 ELSE 0)
                     /\ attempt' = attempt + 1
                     /\ pc' = "tavily"
                     /\ UNCHANGED <<job_listings, raw, tavily_outcome>>
                ELSE /\ job_listings' = outcome.value
                     /\ raw' = response
                     /\ tavily_outcome' = OutcomeOf(outcome.value)
                     /\ pc' = "tavily_returned"
                     /\ UNCHANGED <<tavily_delays, attempt>>
    /\ UNCHANGED <<appVars, logVars, caller, clientFields, callArgs, result, returned_by, tavily_invocations,
                   serperVars, graphVars, client_calls>>

\* one pass of the loop of _make_tavily_request: send, parse, and on an
\* exception sleep or give the error record back
TavilyAttempt ==
    /\ pc = "tavily"
    /\ attempt < max_retries
    /\ \E response \in TavilyResponses :
         LET tried == TavilyTry(response, max_results)
             outcome == IF tried.kind = "raise"
                        THEN ExceptClause("Tavily API failed after", attempt, tried.e)
                        ELSE tried
         IN  /\ tavily_request' = TavilySearchParams(query, max_results)
             /\ tavily_calls' = tavily_calls + 1
             /\ tavily_failed' = tavily_failed + (IF AttemptFailed(response, tried) THEN 1 ELSE 0)
             /\ IF outcome.kind = "sleep"
                THEN /\ tavily_delays' = tavily_delays + 1
                     /\ attempt' = attempt + 1
                     /\ pc' = "tavily"
                     /\ UNCHANGED <<job_listings, raw, tavily_outcome>>
                ELSE IF outcome.kind = "return"
                THEN /\ job_listings' = outcome.value
                     /\ raw' = response
                     /\ tavily_outcome' = OutcomeOf(outcome.value)
                     /\ pc' = "tavily_returned"
                     /\ UNCHANGED <<tavily_delays, attempt>>
                ELSE /\ pc' = "raised"
                     /\ UNCHANGED <<tavily_delays, attempt, job_listings, raw, tavily_outcome>>
    /\ UNCHANGED <<appVars, logVars, caller, clientFields, callArgs, result, returned_by, tavily_invocations,
                   serperVars, graphVars, client_calls>>

\* a coordinator that asks Serper whatever Tavily gave
TavilyReturnedFallsThrough ==
    /\ pc = "tavily_returned"
    /\ raw' = None
    /\ pc' = "serper_check"
    /\ UNCHANGED <<result, returned_by>>
    /\ UNCHANGED <<appVars, logVars, caller, clientFields, callArgs, job_listings, attempt, tavilyVars, serperVars,
                   graphVars, client_calls>>

\* lines 123-124: if job_listings and "error" not in job_listings[0]: return
TavilyReturned ==
    /\ pc = "tavily_returned"
    /\ raw' = None
    /\ IF Usable(job_listings)
       THEN /\ result' = job_listings
            /\ returned_by' = "tavily"
            /\ pc' = "returned"
       ELSE /\ pc' = "serper_check"
            /\ UNCHANGED <<result, returned_by>>
    /\ UNCHANGED <<appVars, logVars, caller, clientFields, callArgs, job_listings, attempt, tavilyVars, serperVars,
                   graphVars, client_calls>>

\* a coordinator that never asks Serper
SerperCheckSkips ==
    /\ pc = "serper_check"
    /\ pc' = "fallback"
    /\ UNCHANGED <<attempt, serper_invocations>>
    /\ UNCHANGED <<appVars, logVars, caller, clientFields, callArgs, job_listings, result, returned_by, raw,
                   tavilyVars, serper_calls, serper_failed, serper_delays, serper_request,
                   serper_outcome, graphVars, client_calls>>

\* lines 127-128: if self.serper_api_key: call the adapter
SerperCheck ==
    /\ pc = "serper_check"
    /\ IF serper_api_key # <<>>
       THEN /\ pc' = "serper"
            /\ attempt' = 0
            /\ serper_invocations' = serper_invocations + 1
       ELSE /\ pc' = "fallback"
            /\ UNCHANGED <<attempt, serper_invocations>>
    /\ UNCHANGED <<appVars, logVars, caller, clientFields, callArgs, job_listings, result, returned_by, raw,
                   tavilyVars, serper_calls, serper_failed, serper_delays, serper_request,
                   serper_outcome, graphVars, client_calls>>

\* one pass of the loop of _make_serper_request
SerperAttempt ==
    /\ pc = "serper"
    /\ attempt < max_retries
    /\ \E response \in SerperResponses :
         LET tried == SerperTry(response, max_results)
             outcome == IF tried.kind = "raise"
                        THEN ExceptClause("Serper API error after", attempt, tried.e)
                        ELSE tried
         IN  /\ serper_request' = SerperPayload(query, max_results)
             /\ serper_calls' = serper_calls + 1
             /\ serper_failed' = serper_failed + (IF AttemptFailed(response, tried) THEN 1 ELSE 0)
             /\ IF outcome.kind = "sleep"
                THEN /\ serper_delays' = serper_delays + 1
                     /\ attempt' = attempt + 1
                     /\ pc' = "serper"
                     /\ UNCHANGED <<job_listings, raw, serper_outcome>>
                ELSE IF outcome.kind = "return"
                THEN /\ job_listings' = outcome.value
                     /\ raw' = response
                     /\ serper_outcome' = OutcomeOf(outcome.value)
                     /\ pc' = "serper_returned"
                     /\ UNCHANGED <<serper_delays, attempt>>
                ELSE /\ pc' = "raised"
                     /\ UNCHANGED <<serper_delays, attempt, job_listings, raw, serper_outcome>>
    /\ UNCHANGED <<appVars, logVars, caller, clientFields, callArgs, result, returned_by, serper_invocations,
                   tavilyVars, graphVars, client_calls>>

\* a coordinator that goes back to Tavily when Serper gave nothing usable
SerperReturnedRetriesTavily ==
    /\ pc = "serper_returned"
    /\ raw' = None
    /\ IF Usable(job_listings)
       THEN /\ result' = job_listings
            /\ returned_by' = "serper"
            /\ pc' = "returned"
            /\ UNCHANGED attempt
       ELSE /\ pc' = IF tavily_calls <= max_retries THEN "tavily" ELSE "fallback"
            /\ attempt' = 0
            /\ UNCHANGED <<result, returned_by>>
    /\ UNCHANGED <<appVars, logVars, caller, clientFields, callArgs, job_listings, tavilyVars, serperVars,
                   graphVars, client_calls>>

\* lines 129-130
SerperReturned ==
    /\ pc = "serper_returned"
    /\ raw' = None
    /\ IF Usable(job_listings)
       THEN /\ result' = job_listings
            /\ returned_by' = "serper"
            /\ pc' = "returned"
       ELSE /\ pc' = "fallback"
            /\ UNCHANGED <<result, returned_by>>
    /\ UNCHANGED <<appVars, logVars, caller, clientFields, callArgs, job_listings, attempt, tavilyVars, serperVars,
                   graphVars, client_calls>>

\* a coordinator that hands back what the last adapter gave
FallbackReturnsLast ==
    /\ pc = "fallback"
    /\ result' = job_listings
    /\ returned_by' = "sample"
    /\ pc' = "returned"
    /\ UNCHANGED <<appVars, logVars, caller, clientFields, callArgs, job_listings, adapterVars, graphVars, client_calls>>

\* a fallback that gives the Tavily client up
FallbackDropsClient ==
    /\ pc = "fallback"
    /\ job_listings' = SampleJobs
    /\ result' = SampleJobs
    /\ returned_by' = "sample"
    /\ pc' = "returned"
    /\ tavily_client' = "None"
    /\ UNCHANGED <<appVars, logVars, caller, tavily_api_key, serper_api_key, callArgs, adapterVars, graphVars,
                   client_calls>>

\* a fallback that has no sample jobs to give
FallbackReturnsNothing ==
    /\ pc = "fallback"
    /\ job_listings' = <<>>
    /\ result' = <<>>
    /\ returned_by' = "sample"
    /\ pc' = "returned"
    /\ UNCHANGED <<appVars, logVars, caller, clientFields, callArgs, adapterVars, graphVars, client_calls>>

\* lines 132-149: the sample jobs
Fallback ==
    /\ pc = "fallback"
    /\ job_listings' = SampleJobs
    /\ result' = SampleJobs
    /\ returned_by' = "sample"
    /\ pc' = "returned"
    /\ UNCHANGED <<appVars, logVars, caller, clientFields, callArgs, adapterVars, graphVars, client_calls>>

(* --------------- main.py: the tab and the nodes of the graph ---------- *)
\* The dict a node returns is merged into the graph state key by key; the
\* keys it does not return keep their value.
\* lines 682-694: the Search Recent Jobs button; the graph is invoked unless
\* there is neither a resume nor a job field
SearchRecentJobsButton ==
    /\ pc = "tab"
    /\ IF resume_text = <<>> /\ job_field = <<>>
       THEN /\ shown' = "error"
            /\ pc' = "rendered"
       ELSE /\ shown' = shown
            /\ pc' = "extract_skills"
    /\ UNCHANGED <<appVars, logVars, caller, clientFields, callArgs, job_listings, result, returned_by, adapterVars,
                   resume_text, job_field, skills, state_job_listings, client_calls>>

\* lines 116-135: the extract_skills node
extract_skills ==
    /\ pc = "extract_skills"
    /\ IF resume_text # <<>>
       THEN \E skills_response \in GeminiResponses : skills' = ParseSkills(skills_response)
       ELSE skills' = IF job_field # <<>> THEN SplitWhitespace(job_field) ELSE <<>>
    /\ pc' = "node_search_jobs"
    /\ UNCHANGED <<appVars, logVars, caller, clientFields, callArgs, job_listings, result, returned_by, adapterVars,
                   resume_text, job_field, state_job_listings, shown, client_calls>>

\* a search_jobs node without its test of the empty query
search_jobs_unguarded ==
    /\ pc = "node_search_jobs"
    /\ query' = NodeQuery(skills, job_field)
    /\ max_results' = NodeMaxResults
    /\ client_calls' = client_calls + 1
    /\ pc' = "search_jobs"
    /\ UNCHANGED state_job_listings
    /\ UNCHANGED <<appVars, logVars, caller, clientFields, job_listings, result, returned_by, adapterVars,
                   resume_text, job_field, skills, shown>>

\* lines 137-148: the search_jobs node up to its first call of the client
search_jobs ==
    /\ pc = "node_search_jobs"
    /\ LET q == NodeQuery(skills, job_field) IN
       IF q = <<>>
       THEN /\ state_job_listings' = <<NoQueryError>>
            /\ pc' = "format_jobs"
            /\ UNCHANGED <<query, max_results, client_calls>>
       ELSE /\ query' = q
            /\ max_results' = NodeMaxResults
            /\ client_calls' = client_calls + 1
            /\ pc' = "search_jobs"
            /\ UNCHANGED state_job_listings
    /\ UNCHANGED <<appVars, logVars, caller, clientFields, job_listings, result, returned_by, adapterVars,
                   resume_text, job_field, skills, shown>>

\* lines 150-157: the search_jobs node after a call of the client returned
search_jobs_returned ==
    /\ pc = "returned"
    /\ caller = "tab"
    /\ IF client_calls = 1 /\ ~Usable(result) /\ job_field # <<>> /\ job_field # query
       THEN /\ query' = job_field
            /\ client_calls' = client_calls + 1
            /\ pc' = "search_jobs"
            /\ attempt' = 0
            /\ tavily_calls' = 0
            /\ tavily_failed' = 0
            /\ tavily_invocations' = 0
            /\ tavily_delays' = 0
            /\ tavily_outcome' = "not_called"
            /\ serper_calls' = 0
            /\ serper_failed' = 0
            /\ serper_invocations' = 0
            /\ serper_delays' = 0
            /\ serper_outcome' = "not_called"
            /\ returned_by' = "none"
            /\ UNCHANGED <<state_job_listings, tavily_request, serper_request, raw>>
       ELSE /\ state_job_listings' = result
            /\ pc' = "format_jobs"
            /\ UNCHANGED <<query, client_calls, adapterVars, returned_by>>
    /\ UNCHANGED <<appVars, logVars, caller, clientFields, max_results, job_listings, result,
                   resume_text, job_field, skills, shown>>

\* lines 159-174: the format_jobs node
format_jobs ==
    /\ pc = "format_jobs"
    /\ state_job_listings' =
           IF ~Usable(state_job_listings)
           THEN state_job_listings
           ELSE [i \in 1..Len(state_job_listings) |-> FormatJob(state_job_listings[i])]
    /\ pc' = "render"
    /\ UNCHANGED <<appVars, logVars, caller, clientFields, callArgs, job_listings, result, returned_by, adapterVars,
                   resume_text, job_field, skills, shown, client_calls>>

\* lines 696-705: the tab shows the listings, or st.error
RenderResult ==
    /\ pc = "render"
    /\ shown' = IF Usable(state_job_listings) THEN "listings" ELSE "error"
    /\ pc' = "rendered"
    /\ UNCHANGED <<appVars, logVars, caller, clientFields, callArgs, job_listings, result, returned_by, adapterVars,
                   resume_text, job_field, skills, state_job_listings, client_calls>>

Next ==
    \/ SearchJobsEnter
    \/ TavilyAttempt
    \/ TavilyReturned
    \/ SerperCheck
    \/ SerperAttempt
    \/ SerperReturned
    \/ Fallback
    \/ SearchRecentJobsButton
    \/ extract_skills
    \/ search_jobs
    \/ search_jobs_returned
    \/ format_jobs
    \/ RenderResult

Spec == Init /\ [][Next]_vars

\* the thread of control takes its next step as long as there is one
FairSpec == Spec /\ WF_vars(Next)

TypeOK ==
    /\ caller \in {"direct", "tab"}
    /\ pc \in {"search_jobs", "tavily", "tavily_returned", "serper_check", "serper",
               "serper_returned", "fallback", "returned", "raised", "tab", "extract_skills",
               "node_search_jobs", "format_jobs", "render", "rendered"}
    /\ attempt \in 0..(max_retries - 1)
    /\ shown \in {"nothing", "listings", "error"}

(* ------------------- log_api_usage: the usage log --------------------- *)
\* the variables of the job search while no search is under way
searchVars == <<caller, clientFields, callArgs, pc, job_listings, result, returned_by, adapterVars,
                graphVars, client_calls>>

SearchIdle ==
    /\ ClientInit(<<>>, <<>>)
    /\ caller = "direct"
    /\ query = <<>>
    /\ max_results = 0
    /\ pc = "idle"
    /\ attempt = 0
    /\ job_listings = <<>>
    /\ result = <<>>
    /\ tavily_calls = 0
    /\ tavily_failed = 0
    /\ serper_calls = 0
    /\ serper_failed = 0
    /\ tavily_invocations = 0
    /\ serper_invocations = 0
    /\ tavily_delays = 0
    /\ serper_delays = 0
    /\ tavily_request = None
    /\ serper_request = None
    /\ raw = None
    /\ tavily_outcome = "not_called"
    /\ serper_outcome = "not_called"
    /\ returned_by = "none"
    /\ resume_text = <<>>
    /\ job_field = <<>>
    /\ skills = <<>>
    /\ state_job_listings = <<>>
    /\ client_calls = 0
    /\ shown = "nothing"

\* token counts a caller passes: len(prompt.split()), or 0 for an error
TokenCounts == 0..MaxTokens

RECURSIVE SumTokens(_)
\* get_current_total_tokens: the sum of the Tokens_Generated column
SumTokens(rows) ==
    IF rows = <<>> THEN 0
    ELSE SumTokens(SubSeq(rows, 1, Len(rows) - 1)) + rows[Len(rows)].Tokens_Generated

\* a thread calls log_api_usage(action, tokens_generated)
log_api_usage ==
    \E t \in LogThreads, tokens \in TokenCounts :
        /\ log_pc[t] = "idle"
        /\ log_calls[t] < MaxLogCalls
        /\ log_calls' = [log_calls EXCEPT ![t] = @ + 1]
        /\ tokens_generated' = [tokens_generated EXCEPT ![t] = tokens]
        /\ log_pc' = [log_pc EXCEPT ![t] = "with csv_lock"]
        /\ UNCHANGED <<appVars, searchVars, log_rows, csv_lock, current_total>>

\* an entry into the critical section that does not look at the lock
LockAcquireBlind ==
    \E t \in LogThreads :
        /\ log_pc[t] = "with csv_lock"
        /\ csv_lock' = t
        /\ log_pc' = [log_pc EXCEPT ![t] = "get_current_total_tokens"]
        /\ UNCHANGED <<appVars, searchVars, log_rows, current_total, tokens_generated, log_calls>>

\* with csv_lock: the thread waits until the lock is free and takes it
LockAcquire ==
    \E t \in LogThreads :
        /\ log_pc[t] = "with csv_lock"
        /\ csv_lock = 0
        /\ csv_lock' = t
        /\ log_pc' = [log_pc EXCEPT ![t] = "get_current_total_tokens"]
        /\ UNCHANGED <<appVars, searchVars, log_rows, current_total, tokens_generated, log_calls>>

\* current_total = get_current_total_tokens()
get_current_total_tokens ==
    \E t \in LogThreads :
        /\ log_pc[t] = "get_current_total_tokens"
        /\ current_total' = [current_total EXCEPT ![t] = SumTokens(log_rows)]
        /\ log_pc' = [log_pc EXCEPT ![t] = "writerow"]
        /\ UNCHANGED <<appVars, searchVars, log_rows, csv_lock, tokens_generated, log_calls>>

\* new_total = current_total + tokens_generated; the row is appended, or
\* opening or writing the file raises and no row is written
LogAppend ==
    \E t \in LogThreads, written \in BOOLEAN :
        /\ log_pc[t] = "writerow"
        /\ log_rows' = IF written
                       THEN Append(log_rows, [Thread |-> t,
                                              API_Hits |-> 1,
                                              Tokens_Generated |-> tokens_generated[t],
                                              Total_Tokens_Till_Now |-> current_total[t] + tokens_generated[t]])
                       ELSE log_rows
        /\ log_pc' = [log_pc EXCEPT ![t] = "release"]
        /\ UNCHANGED <<appVars, searchVars, csv_lock, current_total, tokens_generated, log_calls>>

\* the end of the with block gives the lock back, on an exception as well
LockRelease ==
    \E t \in LogThreads :
        /\ log_pc[t] = "release"
        /\ csv_lock' = 0
        /\ log_pc' = [log_pc EXCEPT ![t] = "idle"]
        /\ UNCHANGED <<appVars, searchVars, log_rows, current_total, tokens_generated, log_calls>>

LogInit == SearchIdle /\ LogSetup /\ SessionDefaults /\ users = {}

LogNext ==
    \/ log_api_usage
    \/ LockAcquire
    \/ get_current_total_tokens
    \/ LogAppend
    \/ LockRelease

LogSpec == LogInit /\ [][LogNext]_vars

(* ------------------ app.py: login, registration, pool ----------------- *)
\* st.session_state has no temp_username until the register form sets it
Unset == [py |-> "unset"]

Phone1 == <<"+", "9", "1", "9", "8", "7", "6", "5", "4", "3", "2", "1", "0">>
Phone2 == <<"+", "9", "1", "9", "8", "7", "6", "5", "4", "3", "2", "1", "1">>

\* what a visitor types into the phone number field
PhoneInputs == { <<>>, <<"+", "9", "1">>, Phone1, Phone2 }

Ann == <<"a", "n", "n">>
Bob == <<"b", "o", "b">>

\* what a visitor types into the username field
UsernameInputs == { <<"a", "l">>, Ann, Bob }

\* rows of the users table when the app starts
InitialUsers == { {}, {[username |-> Ann, phone_number |-> Phone1]} }

\* status of a Twilio verification check, or the call raises
CheckStatuses == {"approved", "pending", "raise"}

\* phone_number and phone_number.startswith("+") and len(phone_number) >= 10
ValidPhone(phone) == phone # <<>> /\ phone[1] = "+" /\ Len(phone) >= 10

\* DB_POOL.getconn() raises PoolError when MaxConn connections are out
PoolExhausted(out) == out >= MaxConn

\* a verify_otp that takes every answer of Twilio for an approval
verify_otp_approves_all(status, db_ok, out) ==
    IF PoolExhausted(out) THEN [ret |-> FALSE, out |-> out]
    ELSE IF db_ok THEN [ret |-> TRUE, out |-> (out + 1) - 1]
    ELSE [ret |-> FALSE, out |-> out + 1]

\* verify_otp: the value returned and the connections out afterwards; the
\* connection goes back only on the path without an exception
verify_otp(status, db_ok, out) ==
    IF status # "approved" THEN [ret |-> FALSE, out |-> out]
    ELSE IF PoolExhausted(out) THEN [ret |-> FALSE, out |-> out]
    ELSE IF db_ok THEN [ret |-> TRUE, out |-> (out + 1) - 1]
    ELSE [ret |-> FALSE, out |-> out + 1]

\* login_user: getconn is outside the try, putconn in the finally
login_user(status, db_ok, select_ok, registered, out) ==
    LET verified == verify_otp(status, db_ok, out) IN
    IF ~verified.ret THEN [ret |-> FALSE, out |-> verified.out, raised |-> FALSE]
    ELSE IF PoolExhausted(verified.out) THEN [ret |-> FALSE, out |-> verified.out, raised |-> TRUE]
    ELSE [ret |-> select_ok /\ registered, out |-> (verified.out + 1) - 1, raised |-> FALSE]

\* register_user: True when the INSERT went through
register_user(insert_ok, name_taken, out) ==
    IF PoolExhausted(out) THEN [ret |-> FALSE, out |-> out, raised |-> TRUE]
    ELSE [ret |-> insert_ok /\ ~name_taken, out |-> (out + 1) - 1, raised |-> FALSE]

Registered(phone) == \E u \in users : u.phone_number = phone

\* lines 513-514: the sidebar radio of a visitor who is not logged in
SelectTab ==
    /\ ~authenticated
    /\ \E tab \in {"Login", "Register"} :
          /\ tab # selected_tab
          /\ selected_tab' = tab
    /\ verification_check' = None
    /\ UNCHANGED <<authenticated, username, otp_sent, phone_number, temp_username, users,
                   checked_out>>
    /\ UNCHANGED <<searchVars, logVars>>

\* lines 538-550: login_form, Send OTP
LoginSendOtp ==
    /\ selected_tab = "Login" /\ ~authenticated /\ ~otp_sent
    /\ \E phone \in PhoneInputs, sent \in BOOLEAN :
          IF ValidPhone(phone) /\ sent
          THEN /\ otp_sent' = TRUE
               /\ phone_number' = Str(phone)
          ELSE UNCHANGED <<otp_sent, phone_number>>
    /\ verification_check' = None
    /\ UNCHANGED <<authenticated, username, selected_tab, temp_username, users, checked_out>>
    /\ UNCHANGED <<searchVars, logVars>>

\* lines 552-569: otp_form, Verify OTP
LoginVerifyOtp ==
    /\ selected_tab = "Login" /\ ~authenticated /\ otp_sent
    /\ \E status \in CheckStatuses, db_ok \in BOOLEAN, select_ok \in BOOLEAN, again_ok \in BOOLEAN :
          LET logged_in == login_user(status, db_ok, select_ok, Registered(phone_number.s),
                                      checked_out)
          IN  /\ verification_check' = [to |-> phone_number, status |-> status]
              /\ IF logged_in.ret /\ ~PoolExhausted(logged_in.out) /\ again_ok
                 THEN /\ \E u \in users :
                            /\ u.phone_number = phone_number.s
                            /\ username' = Str(u.username)
                      /\ authenticated' = TRUE
                      /\ selected_tab' = "Resume Analysis"
                      /\ otp_sent' = FALSE
                      /\ checked_out' = (logged_in.out + 1) - 1
                 ELSE /\ checked_out' = IF logged_in.ret /\ ~PoolExhausted(logged_in.out)
                                        THEN logged_in.out + 1
                                        ELSE logged_in.out
                      /\ UNCHANGED <<username, authenticated, selected_tab, otp_sent>>
    /\ UNCHANGED <<phone_number, temp_username, users>>
    /\ UNCHANGED <<searchVars, logVars>>

\* lines 575-592: register_form, Send OTP
RegisterSendOtp ==
    /\ selected_tab = "Register" /\ ~authenticated /\ ~otp_sent
    /\ \E name \in UsernameInputs, phone \in PhoneInputs, sent \in BOOLEAN :
          IF Len(name) >= 3 /\ ValidPhone(phone) /\ sent
          THEN /\ otp_sent' = TRUE
               /\ phone_number' = Str(phone)
               /\ temp_username' = Str(name)
          ELSE UNCHANGED <<otp_sent, phone_number, temp_username>>
    /\ verification_check' = None
    /\ UNCHANGED <<authenticated, username, selected_tab, users, checked_out>>
    /\ UNCHANGED <<searchVars, logVars>>

\* lines 594-607: otp_register_form, Verify OTP; reading a temp_username
\* that was never set raises and ends the run
RegisterVerifyOtp ==
    /\ selected_tab = "Register" /\ ~authenticated /\ otp_sent
    /\ \E status \in CheckStatuses, db_ok \in BOOLEAN, insert_ok \in BOOLEAN :
          LET verified == verify_otp(status, db_ok, checked_out)
              name_taken == /\ temp_username # Unset
                            /\ \E u \in users : u.username = temp_username.s
              registered == register_user(insert_ok, name_taken, verified.out)
          IN  /\ verification_check' = [to |-> phone_number, status |-> status]
              /\ IF verified.ret /\ temp_username # Unset /\ registered.ret
                 THEN /\ users' = users \cup {[username |-> temp_username.s,
                                               phone_number |-> phone_number.s]}
                      /\ authenticated' = TRUE
                      /\ username' = temp_username
                      /\ selected_tab' = "Resume Analysis"
                      /\ otp_sent' = FALSE
                      /\ checked_out' = registered.out
                 ELSE /\ checked_out' = IF verified.ret /\ temp_username # Unset
                                        THEN registered.out
                                        ELSE verified.out
                      /\ UNCHANGED <<users, authenticated, username, selected_tab, otp_sent>>
    /\ UNCHANGED <<phone_number, temp_username>>
    /\ UNCHANGED <<searchVars, logVars>>

\* lines 610-617: the Logout button; the run gets there only when the
\* theme update of the sidebar (line 522) got its connection
Logout ==
    /\ authenticated
    /\ ~PoolExhausted(checked_out)
    /\ authenticated' = FALSE
    /\ username' = None
    /\ selected_tab' = "Login"
    /\ otp_sent' = FALSE
    /\ verification_check' = None
    /\ UNCHANGED <<phone_number, temp_username, users, checked_out>>
    /\ UNCHANGED <<searchVars, logVars>>

AppInit ==
    /\ SearchIdle
    /\ LogSetup
    /\ SessionDefaults
    /\ users \in InitialUsers

AppNext ==
    \/ SelectTab
    \/ LoginSendOtp
    \/ LoginVerifyOtp
    \/ RegisterSendOtp
    \/ RegisterVerifyOtp
    \/ Logout

AppSpec == AppInit /\ [][AppNext]_vars

(* ============================ the claims ============================== *)
\* JobSearchClient.search_jobs has returned (and the node has not called it again)
Returned == returned_by # "none"

IsListing(rec) == DOMAIN rec = {"title", "company", "location", "link"}
IsErrorResult(value) == Len(value) = 1 /\ "error" \in DOMAIN value[1]

\* C1: whatever the query (the empty one included), max_results, the
\* configured keys and the behaviour of the providers, the sequence that
\* JobSearchClient.search_jobs returns holds at least one listing, and
\* nothing but listings.
C1_NeverEmpty ==
    Returned => /\ Len(result) >= 1
                /\ \A i \in 1..Len(result) : IsListing(result[i])

\* C1 witness: an empty query, both providers configured and both failing
\* on every attempt, and search_jobs has returned.
C1_Witness ==
    /\ Returned
    /\ caller = "direct"
    /\ query = <<>>
    /\ tavily_failed = max_retries
    /\ serper_failed = max_retries

\* C2: no exception leaves an adapter or search_jobs; an adapter whose
\* attempts all failed hands the coordinator a one-element error record.
C2_NoExceptionEscapes ==
    /\ pc # "raised"
    /\ (pc = "tavily_returned" /\ tavily_failed = tavily_calls)
          => (tavily_outcome = "error" /\ IsErrorResult(job_listings))
    /\ (pc = "serper_returned" /\ serper_failed = serper_calls)
          => (serper_outcome = "error" /\ IsErrorResult(job_listings))

\* C2 witness: every attempt of both adapters raised, and search_jobs
\* returned all the same.
C2_Witness ==
    /\ Returned
    /\ tavily_outcome = "error"
    /\ serper_outcome = "error"
    /\ serper_failed = max_retries
    /\ job_listings = SampleJobs

\* C3: when the Tavily adapter returns at least one listing, the next step
\* of search_jobs is to return exactly that sequence, and Serper is not
\* invoked and gets no network call, then or later in that call.
C3_PriorityShortCircuit ==
    /\ [](returned_by = "tavily" =>
            /\ tavily_outcome = "listings"
            /\ serper_invocations = 0
            /\ serper_calls = 0
            /\ result = job_listings)
    /\ [][(pc = "tavily_returned" /\ tavily_outcome = "listings") =>
            /\ pc' = "returned"
            /\ returned_by' = "tavily"
            /\ result' = job_listings
            /\ serper_invocations' = 0
            /\ serper_calls' = 0]_vars

\* C3 witness: both keys configured, Tavily gave two listings, search_jobs
\* returned them.
C3_Witness ==
    /\ returned_by = "tavily"
    /\ serper_api_key # <<>>
    /\ Len(result) = 2
    /\ pc = "returned"

NonOkStatus(response) == response.py = "response" /\ response.status_code # 200

C5_ExhaustedPath ==
    (Returned /\ tavily_outcome # "listings" /\ serper_outcome # "listings") =>
        /\ returned_by = "sample"
        /\ Len(result) = 2
        /\ result[1].title = <<"S", "a", "m", "p", "l", "e", " ", "D", "a", "t", "a", " ", "S", "c", "i", "e", "n", "t", "i", "s", "t">>
        /\ result[2].title = <<"S", "a", "m", "p", "l", "e", " ", "S", "o", "f", "t", "w", "a", "r", "e", " ", "E", "n", "g", "i", "n", "e", "e", "r">>
        /\ result[1].company = <<"S", "a", "m", "p", "l", "e", " ", "C", "o", "m", "p", "a", "n", "y">>
        /\ result[2].company = <<"S", "a", "m", "p", "l", "e", " ", "T", "e", "c", "h", " ", "I", "n", "c", ".">>
        /\ \A i \in 1..2 : result[i].location = India /\ result[i].link = SampleLink

\* C5 witness: Tavily ended with an error, Serper with no listing, and
\* search_jobs returned.
C5_Witness ==
    /\ Returned
    /\ tavily_outcome = "error"
    /\ serper_outcome = "empty"
    /\ max_results = 1

\* C6: when the Tavily adapter ended with nothing or with an error and a
\* Serper key is configured, the Serper adapter is invoked exactly once,
\* and if it gives listings they are what search_jobs returns.
C6_FailOver ==
    (Returned /\ tavily_outcome \in {"empty", "error"} /\ serper_api_key # <<>>) =>
        /\ serper_invocations = 1
        /\ serper_outcome = "listings" =>
              /\ returned_by = "serper"
              /\ result = job_listings
              /\ \A i \in 1..Len(result) : result[i] # SampleJobs[1] /\ result[i] # SampleJobs[2]

\* C6 witness: Tavily raised three times, Serper answered once with two
\* listings, which were returned.
C6_Witness ==
    /\ returned_by = "serper"
    /\ tavily_calls = max_retries
    /\ tavily_failed = max_retries
    /\ serper_calls = 1
    /\ Len(result) = 2

RawRecords(response, key) == Get(response.d, key, PyList(<<>>)).l

\* C7: every listing that comes from a provider has a title that holds a
\* job keyword, case ignored; a raw record whose title is missing or holds
\* none does not get into the adapter's result.
C7_RelevanceGate ==
    /\ returned_by \in {"tavily", "serper"} =>
          \A i \in 1..Len(result) : IsJobTitle(result[i].title)
    /\ (pc = "tavily_returned" /\ tavily_outcome = "listings") =>
          /\ \A i \in 1..Len(job_listings) : IsJobTitle(job_listings[i].title)
          /\ \A r \in 1..Len(RawRecords(raw, "results")) :
                LET rec == RawRecords(raw, "results")[r] IN
                ("title" \notin DOMAIN rec \/ ~IsJobTitle(rec.title.s)) =>
                    \A i \in 1..Len(job_listings) : job_listings[i].link # Get(rec, "url", Hash)
    /\ (pc = "serper_returned" /\ serper_outcome = "listings") =>
          /\ \A i \in 1..Len(job_listings) : IsJobTitle(job_listings[i].title)
          /\ \A r \in 1..Len(RawRecords(raw.json, "organic")) :
                LET rec == RawRecords(raw.json, "organic")[r] IN
                ("title" \notin DOMAIN rec \/ ~IsJobTitle(rec.title.s)) =>
                    \A i \in 1..Len(job_listings) : job_listings[i].link # Get(rec, "link", Hash)

\* C7 witness: Tavily answered with a record without a job title and a
\* record with one, and the adapter returned one listing.
C7_Witness ==
    /\ pc = "tavily_returned"
    /\ tavily_outcome = "listings"
    /\ Len(job_listings) = 1
    /\ Len(RawRecords(raw, "results")) = 2
    /\ max_results >= 2

\* C8 as stated: for a positive max_results, search_jobs returns at most
\* max_results listings on every path.
C8_ResultClipping ==
    (Returned /\ max_results >= 1) => Len(result) <= max_results

\* C9 as stated: what either adapter sends is never longer than the limit,
\* and a query longer than the limit goes out with exactly that length.
C9_Truncation ==
    /\ tavily_request # None =>
          /\ Len(tavily_request.query) <= QueryLimit
          /\ Len(query) > QueryLimit => Len(tavily_request.query) = QueryLimit
    /\ serper_request # None =>
          /\ Len(serper_request.q) <= QueryLimit
          /\ Len(query) > QueryLimit => Len(serper_request.q) = QueryLimit

GraphPast == pc \in {"format_jobs", "render", "rendered"} /\ resume_text # <<>>

IsSubsequence(sub, full) ==
    \E idx \in [1..Len(sub) -> 1..Len(full)] :
        /\ \A i \in 1..Len(sub) : sub[i] = full[idx[i]]
        /\ \A i, j \in 1..Len(sub) : i < j => idx[i] < idx[j]

TavilyMapped(response) ==
    [i \in 1..Len(RawRecords(response, "results")) |-> TavilyListing(RawRecords(response, "results")[i])]

SerperMapped(response) ==
    [i \in 1..Len(RawRecords(response.json, "organic")) |->
        SerperListing(RawRecords(response.json, "organic")[i])]

\* C11: what search_jobs returns comes from one source only: the listings
\* of the Tavily adapter, or those of the Serper adapter, or the sample
\* list; listings of an adapter are the raw records of its response with
\* some left out, in the order of the response.
C11_OneSourceInOrder ==
    /\ (pc = "tavily_returned" /\ tavily_outcome = "listings") =>
          IsSubsequence(job_listings, TavilyMapped(raw))
    /\ (pc = "serper_returned" /\ serper_outcome = "listings") =>
          IsSubsequence(job_listings, SerperMapped(raw))
    /\ returned_by = "tavily" =>
          /\ result = job_listings
          /\ \A i \in 1..Len(result) : \E r \in TavilyRawPool : result[i] = TavilyListing(r)
    /\ returned_by = "serper" =>
          /\ result = job_listings
          /\ \A i \in 1..Len(result) : \E r \in SerperRawPool : result[i] = SerperListing(r)
    /\ returned_by = "sample" => result = SampleJobs

\* C11 witness: Tavily answered with two different job records and the
\* adapter returned both.
C11_Witness ==
    /\ pc = "tavily_returned"
    /\ Len(job_listings) = 2
    /\ job_listings[1] # job_listings[2]

\* C12: within one search_jobs call, once Serper has been invoked or
\* called, Tavily is neither invoked nor called again.
C12_LinearOrder ==
    [][(client_calls' = client_calls /\ (serper_invocations > 0 \/ serper_calls > 0)) =>
          /\ tavily_calls' = tavily_calls
          /\ tavily_invocations' = tavily_invocations
          /\ pc' # "tavily"]_vars

\* C12 witness: three Tavily calls, then three Serper calls, then the
\* return.
C12_Witness ==
    /\ Returned
    /\ tavily_calls = max_retries
    /\ serper_calls = max_retries

\* C13: an adapter returns an error record exactly when its last attempt
\* failed, the empty list or listings when it completed; listings never
\* carry an "error" key, so the coordinator takes them as usable.
C13_Distinguishable ==
    /\ pc = "tavily_returned" =>
          /\ tavily_failed = tavily_calls <=> IsErrorResult(job_listings)
          /\ tavily_failed < tavily_calls =>
                \/ job_listings = <<>>
                \/ Usable(job_listings) /\ \A i \in 1..Len(job_listings) : IsListing(job_listings[i])
    /\ pc = "serper_returned" =>
          /\ serper_failed = serper_calls <=> IsErrorResult(job_listings)
          /\ serper_failed < serper_calls =>
                \/ job_listings = <<>>
                \/ Usable(job_listings) /\ \A i \in 1..Len(job_listings) : IsListing(job_listings[i])

\* C13 witness: Tavily ended with an error record, Serper completed with
\* an empty result.
C13_Witness ==
    /\ pc = "serper_returned"
    /\ tavily_outcome = "error"
    /\ job_listings = <<>>
    /\ serper_failed < serper_calls

\* C14: no step of search_jobs, of its adapters or of the graph changes
\* a field of the client.
C14_ClientUnchanged ==
    [][/\ tavily_api_key' = tavily_api_key
       /\ serper_api_key' = serper_api_key
       /\ tavily_client' = tavily_client]_vars

\* C14 witness: a client with both keys whose search went through both
\* adapters and the fallback.
C14_Witness ==
    /\ returned_by = "sample"
    /\ tavily_client = "TavilyClient"
    /\ serper_api_key # <<>>
    /\ tavily_invocations = 1
    /\ serper_invocations = 1

\* C15: an adapter sleeps once after each failed attempt that another
\* attempt follows and nowhere else: inside its loop it has slept once per
\* call made, after its return once less than it made calls, never more
\* than max_retries - 1 times.
C15_InterAttemptDelay ==
    /\ tavily_delays <= max_retries - 1
    /\ serper_delays <= max_retries - 1
    /\ pc = "tavily" => tavily_delays = tavily_calls
    /\ (pc # "tavily" /\ tavily_calls > 0) => tavily_delays = tavily_calls - 1
    /\ pc = "serper" => serper_delays = serper_calls
    /\ (pc # "serper" /\ serper_calls > 0) => serper_delays = serper_calls - 1

\* C15 witness: Tavily failed three times with two delays, Serper
\* completed at its second attempt with one delay.
C15_Witness ==
    /\ pc = "serper_returned"
    /\ tavily_calls = max_retries
    /\ tavily_delays = max_retries - 1
    /\ serper_calls = 2
    /\ serper_delays = 1
    /\ serper_failed = 1

(* --------------------- error records and payloads --------------------- *)
ErrorOf(value) == value[1].error

CarriesAttemptsAndMessage(value) ==
    /\ "attempts" \in DOMAIN ErrorOf(value)
    /\ "e" \in DOMAIN ErrorOf(value)
    /\ ErrorOf(value).attempts = max_retries

TavilyRaisingPayload(response) ==
    \/ response.py = "None"
    \/ response.py = "dict" /\ "results" \in DOMAIN response.d /\ response.d.results.py # "list"

SerperRaisingPayload(response) ==
    /\ response.py = "response"
    /\ response.status_code = 200
    /\ \/ response.json.py \in {"raise", "None"}
       \/ /\ response.json.py = "dict"
          /\ "organic" \in DOMAIN response.json.d
          /\ response.json.d.organic.py # "list"

\* a payload of a good answer without the key of the result list
TavilyKeyMissing(response) == response.py = "dict" /\ "results" \notin DOMAIN response.d

SerperKeyMissing(response) ==
    /\ response.py = "response"
    /\ response.status_code = 200
    /\ response.json.py = "dict"
    /\ "organic" \notin DOMAIN response.json.d

\* what a network error on the last attempt leaves behind
TavilyFailedLikeNetworkError ==
    /\ tavily_calls = max_retries
    /\ tavily_failed = max_retries
    /\ tavily_delays = max_retries - 1
    /\ tavily_outcome = "error"

SerperFailedLikeNetworkError ==
    /\ serper_calls = max_retries
    /\ serper_failed = max_retries
    /\ serper_delays = max_retries - 1
    /\ serper_outcome = "error"

TavilyGaveList(response) ==
    response.py = "dict" /\ "results" \in DOMAIN response.d /\ response.d.results.py = "list"

SerperGaveList(response) ==
    /\ response.py = "response"
    /\ response.status_code = 200
    /\ response.json.py = "dict"
    /\ "organic" \in DOMAIN response.json.d
    /\ response.json.d.organic.py = "list"

TavilyMap(records) == [i \in 1..Len(records) |-> TavilyListing(records[i])]
SerperMap(records) == [i \in 1..Len(records) |-> SerperListing(records[i])]

\* C18 as stated: the adapter returns the first max_results of the
\* filtered raw records.
C18_Original ==
    /\ (pc = "tavily_returned" /\ TavilyGaveList(raw)) =>
          job_listings = Slice(TavilyMap(SelectSeq(RawRecords(raw, "results"), TavilyKeep)), max_results)
    /\ (pc = "serper_returned" /\ SerperGaveList(raw)) =>
          job_listings = Slice(SerperMap(SelectSeq(RawRecords(raw.json, "organic"), SerperKeep)), max_results)

\* C18 as amended: the adapter returns the filtered sequence of the first
\* max_results raw records: the clip comes first, the filter second.
C18_ClipThenFilter ==
    /\ (pc = "tavily_returned" /\ TavilyGaveList(raw)) =>
          job_listings = TavilyMap(SelectSeq(Slice(RawRecords(raw, "results"), max_results), TavilyKeep))
    /\ (pc = "serper_returned" /\ SerperGaveList(raw)) =>
          job_listings = SerperMap(SelectSeq(Slice(RawRecords(raw.json, "organic"), max_results), SerperKeep))

\* C18 witness: max_results is 1, the first raw record of Tavily is no
\* job, the second is one, and the adapter returned nothing.
C18_Witness ==
    /\ pc = "tavily_returned"
    /\ TavilyGaveList(raw)
    /\ max_results = 1
    /\ Len(RawRecords(raw, "results")) = 2
    /\ ~TavilyKeep(RawRecords(raw, "results")[1])
    /\ TavilyKeep(RawRecords(raw, "results")[2])
    /\ job_listings = <<>>

HasJobTitle(rec) == "title" \in DOMAIN rec /\ IsJobTitle(rec.title.s)

\* listings are the job records among the first m of records, each once,
\* in their order
ExactlyJobRecords(listings, records, m, provider) ==
    LET jobIdx == {i \in 1..m : HasJobTitle(records[i])} IN
    /\ Len(listings) = Cardinality(jobIdx)
    /\ \E idx \in [1..Len(listings) -> jobIdx] :
          /\ \A i, j \in 1..Len(listings) : i < j => idx[i] < idx[j]
          /\ \A i \in 1..Len(listings) :
                listings[i] = IF provider = "tavily" THEN TavilyListing(records[idx[i]])
                                                     ELSE SerperListing(records[idx[i]])

Considered(n, k) == IF n <= k THEN n ELSE k

\* C19: from raw records r1..rn the adapter returns the job records among
\* r1..r_min(n, max_results), each once, in the order of the provider.
C19_ExactlyJobRecords ==
    /\ (pc = "tavily_returned" /\ TavilyGaveList(raw)) =>
          ExactlyJobRecords(job_listings, RawRecords(raw, "results"),
                            Considered(Len(RawRecords(raw, "results")), max_results), "tavily")
    /\ (pc = "serper_returned" /\ SerperGaveList(raw)) =>
          ExactlyJobRecords(job_listings, RawRecords(raw.json, "organic"),
                            Considered(Len(RawRecords(raw.json, "organic")), max_results), "serper")

\* C19 witness: max_results is 1, Tavily answered with two job records,
\* the adapter returned the first of them and nothing else.
C19_Witness ==
    /\ pc = "tavily_returned"
    /\ TavilyGaveList(raw)
    /\ max_results = 1
    /\ Len(RawRecords(raw, "results")) = 2
    /\ \A i \in 1..2 : HasJobTitle(RawRecords(raw, "results")[i])
    /\ job_listings = <<TavilyListing(RawRecords(raw, "results")[1])>>

(* ------------------------- query construction ------------------------- *)
FirstCallOfNode == caller = "tab" /\ pc = "search_jobs" /\ client_calls = 1

\* C20 as stated: the query is the skills joined with ", " when there is
\* a resume and it gave skills, and the job field as entered otherwise.
C20_Original ==
    FirstCallOfNode =>
        query = IF resume_text # <<>> /\ skills # <<>> THEN Join(skills) ELSE job_field

\* C20 as amended: the query is the skills joined with ", " whenever the
\* skill list of the state is not empty, and the job field as entered
\* when it is empty; without a resume extract_skills makes the skill list
\* the words of the job field, so a job field of several words goes out
\* as its words joined with ", ".
C20_QueryConstruction ==
    FirstCallOfNode =>
        /\ query = IF skills # <<>> THEN Join(skills) ELSE job_field
        /\ resume_text = <<>> => skills = SplitWhitespace(job_field)
        /\ (resume_text = <<>> /\ job_field = <<"M", "L", " ", "o", "p", "s">>) => query = <<"M", "L", ",", " ", "o", "p", "s">>

\* C20 witness: no resume, the job field "ML ops", and the client is
\* about to be called with "ML, ops".
C20_Witness ==
    /\ FirstCallOfNode
    /\ resume_text = <<>>
    /\ job_field = <<"M", "L", " ", "o", "p", "s">>
    /\ query = <<"M", "L", ",", " ", "o", "p", "s">>

(* --------------------------- field defaults --------------------------- *)
IsPrefix(p, s) == Len(p) <= Len(s) /\ SubSeq(s, 1, Len(p)) = p

\* the raw records an adapter made its listings from, one per listing
TavilyKept(response) == SelectSeq(Slice(RawRecords(response, "results"), max_results), TavilyKeep)
SerperKept(response) == SelectSeq(Slice(RawRecords(response.json, "organic"), max_results), SerperKeep)

\* C21 as stated: the listing of a raw record that has a snippet and no
\* source field (Tavily), or a snippet (Serper, whose records have no
\* company field), has a company that is taken from the start of the
\* snippet and is at most CompanyWidth characters long.
C21_CompanyFromSnippet ==
    /\ (pc = "tavily_returned" /\ tavily_outcome = "listings") =>
          \A i \in 1..Len(job_listings) :
              LET rec == TavilyKept(raw)[i] IN
              ("source" \notin DOMAIN rec /\ "snippet" \in DOMAIN rec) =>
                  /\ IsPrefix(job_listings[i].company, rec.snippet)
                  /\ Len(job_listings[i].company) <= CompanyWidth
    /\ (pc = "serper_returned" /\ serper_outcome = "listings") =>
          \A i \in 1..Len(job_listings) :
              LET rec == SerperKept(raw)[i] IN
              "snippet" \in DOMAIN rec =>
                  /\ IsPrefix(job_listings[i].company, rec.snippet)
                  /\ Len(job_listings[i].company) <= CompanyWidth

(* ------------------------- calls and their cost ----------------------- *)
TavilyUntouched ==
    /\ tavily_invocations = 0
    /\ tavily_calls = 0
    /\ tavily_delays = 0
    /\ tavily_request = None

SerperUntouched ==
    /\ serper_invocations = 0
    /\ serper_calls = 0
    /\ serper_delays = 0
    /\ serper_request = None

InsideSearchJobs ==
    pc \in {"tavily", "tavily_returned", "serper_check", "serper", "serper_returned", "fallback",
            "returned"}

\* C22: a provider without an API key is never invoked; without a Tavily
\* key the search goes to Serper first, without a Serper key a Tavily
\* failure ends in the sample list, and without both keys search_jobs
\* returns the sample list after no network call and no delay.
C22_NoKeyNoCall ==
    /\ tavily_api_key = <<>> => TavilyUntouched /\ pc \notin {"tavily", "tavily_returned"}
    /\ serper_api_key = <<>> => SerperUntouched /\ pc \notin {"serper", "serper_returned"}
    /\ (tavily_api_key = <<>> /\ serper_api_key # <<>> /\ InsideSearchJobs) =>
          \/ pc = "serper_check"
          \/ serper_invocations = 1
    /\ (serper_api_key = <<>> /\ Returned /\ tavily_outcome \in {"error", "empty"}) =>
          returned_by = "sample" /\ result = SampleJobs
    /\ (tavily_api_key = <<>> /\ serper_api_key = <<>> /\ Returned) =>
          /\ returned_by = "sample"
          /\ result = SampleJobs
          /\ TavilyUntouched
          /\ SerperUntouched

\* C22 witness: a client without keys returned the sample list to a
\* direct caller that asked for "DS".
C22_Witness ==
    /\ caller = "direct"
    /\ tavily_api_key = <<>>
    /\ serper_api_key = <<>>
    /\ query = <<"D", "S">>
    /\ pc = "returned"
    /\ result = SampleJobs
    /\ tavily_calls + serper_calls = 0

\* the adapter completed an attempt whose answer holds no job record
\* among the records it considers
TavilyNothingFound(response) ==
    \/ TavilyKeyMissing(response)
    \/ TavilyGaveList(response) /\ TavilyKept(response) = <<>>

SerperNothingFound(response) ==
    \/ SerperKeyMissing(response)
    \/ SerperGaveList(response) /\ SerperKept(response) = <<>>

EmptyNotRetried ==
    /\ (pc = "tavily_returned" /\ TavilyNothingFound(raw)) =>
          /\ tavily_outcome = "empty"
          /\ job_listings = <<>>
          /\ tavily_failed = tavily_calls - 1
          /\ tavily_delays = tavily_failed
    /\ (pc = "serper_returned" /\ SerperNothingFound(raw)) =>
          /\ serper_outcome = "empty"
          /\ job_listings = <<>>
          /\ serper_failed = serper_calls - 1
          /\ serper_delays = serper_failed

EmptyAdvances ==
    /\ (pc = "tavily_returned" /\ tavily_outcome = "empty") =>
          /\ pc' = "serper_check"
          /\ tavily_calls' = tavily_calls
          /\ tavily_delays' = tavily_delays
    /\ (pc = "serper_returned" /\ serper_outcome = "empty") =>
          /\ pc' = "fallback"
          /\ serper_calls' = serper_calls
          /\ serper_delays' = serper_delays
    /\ (tavily_outcome = "empty" /\ client_calls' = client_calls) =>
          tavily_calls' = tavily_calls /\ tavily_delays' = tavily_delays
    /\ (serper_outcome = "empty" /\ client_calls' = client_calls) =>
          serper_calls' = serper_calls /\ serper_delays' = serper_delays

\* C23: an attempt that completes without error and yields no listing
\* (no raw record, or none of the considered records is a job record) is
\* the last call to that provider: it is not counted as failed, no delay
\* follows it, and the next step of the coordinator goes on to the next
\* source.
C23_EmptyNotRetried == []EmptyNotRetried /\ [][EmptyAdvances]_vars

\* C23 witness: the first Tavily call answered with one record that is no
\* job record, and the adapter returned the empty list at once.
C23_Witness ==
    /\ pc = "tavily_returned"
    /\ TavilyGaveList(raw)
    /\ Len(RawRecords(raw, "results")) = 1
    /\ max_results >= 1
    /\ job_listings = <<>>
    /\ tavily_calls = 1
    /\ tavily_delays = 0

TavilyCompleted(response) == response # None /\ TavilyTry(response, max_results).kind = "return"
SerperCompleted(response) == response # None /\ SerperTry(response, max_results).kind = "return"

\* the return value is that of the attempt that completed, and every
\* attempt before it failed
DeterminedByLastAttempt ==
    /\ (pc = "tavily_returned" /\ TavilyCompleted(raw)) =>
          /\ job_listings = TavilyTry(raw, max_results).value
          /\ tavily_calls \in 1..max_retries
          /\ tavily_failed = tavily_calls - 1
    /\ (pc = "serper_returned" /\ SerperCompleted(raw)) =>
          /\ job_listings = SerperTry(raw, max_results).value
          /\ serper_calls \in 1..max_retries
          /\ serper_failed = serper_calls - (IF NonOkStatus(raw) THEN 0 ELSE 1)

\* the loop goes round again only after an attempt that raised, and an
\* adapter that has returned is not called again in this call
StopsWhenCompleted ==
    /\ (pc = "tavily" /\ pc' = "tavily") =>
          tavily_failed' = tavily_failed + 1 /\ tavily_delays' = tavily_delays + 1
    /\ (pc = "serper" /\ pc' = "serper") =>
          serper_failed' = serper_failed + 1 /\ serper_delays' = serper_delays + 1
    /\ (pc # "tavily" /\ client_calls' = client_calls) => tavily_calls' = tavily_calls
    /\ (pc # "serper" /\ client_calls' = client_calls) => serper_calls' = serper_calls

\* C24: the retry loop stops at the first attempt that completes without
\* raising: no further call goes to that provider in this search_jobs
\* call, and the adapter returns what that attempt alone gives, nothing of
\* the failed attempts before it.
C24_StopsAtFirstCompleted == []DeterminedByLastAttempt /\ [][StopsWhenCompleted]_vars

\* C24 witness: the first Tavily attempt failed, the second completed
\* with listings.
C24_Witness ==
    /\ pc = "tavily_returned"
    /\ tavily_calls = 2
    /\ tavily_failed = 1
    /\ tavily_outcome = "listings"
    /\ job_listings = TavilyTry(raw, max_results).value

CallBudget ==
    /\ tavily_calls <= 3
    /\ serper_calls <= 3
    /\ tavily_calls + serper_calls <= 6
    /\ tavily_delays <= 2
    /\ serper_delays <= 2
    /\ tavily_delays + serper_delays <= 4

\* C25: every search_jobs call of the client returns, given that each
\* network call returns or raises, and up to its return it makes at most
\* 6 network calls (3 to each provider) and sleeps at most 4 times (2 for
\* each provider).
C25_Terminates == []CallBudget /\ (pc = "search_jobs" ~> pc = "returned")

\* C25 witness: search_jobs returned after three failed calls to each
\* provider and two delays for each.
C25_Witness ==
    /\ pc = "returned"
    /\ tavily_calls = 3
    /\ serper_calls = 3
    /\ tavily_delays = 2
    /\ serper_delays = 2
    /\ returned_by = "sample"

(* ------------------------- the nodes of the graph --------------------- *)
OneCallPerNode ==
    caller = "tab" =>
        /\ client_calls <= 1
        /\ client_calls = 1 =>
              /\ query # <<>>
              /\ skills # <<>> => query = Join(skills)
        /\ pc \in {"format_jobs", "render"} =>
              (client_calls = 1 <=> (skills # <<>> \/ job_field # <<>>))

NoSecondCall ==
    (caller = "tab" /\ pc = "returned") =>
        /\ Usable(result)
        /\ pc' = "format_jobs"
        /\ client_calls' = client_calls
        /\ query' = query
        /\ state_job_listings' = result

\* C26: the search_jobs node never takes its retry with the job_field
\* query: what the client returns is never empty and never starts with an
\* error record, so the node calls the client once for a query that is not
\* empty (and not at all for an empty one), and with a skill list that is
\* not empty the query is made of the skills alone.
C26_RetryUnreachable == []OneCallPerNode /\ [][NoSecondCall]_vars

\* C26 witness: both providers failed, the client gave the sample list,
\* and the node went on to format_jobs after one call although the job
\* field is set and differs from the query.
C26_Witness ==
    /\ caller = "tab"
    /\ pc = "format_jobs"
    /\ client_calls = 1
    /\ returned_by = "sample"
    /\ tavily_outcome = "error"
    /\ serper_outcome = "error"
    /\ job_field # <<>>
    /\ job_field # query
    /\ state_job_listings = SampleJobs

AnchorOpen == <<"<", "a", " ", "h", "r", "e", "f", "=", "'">>

FormatPreserves ==
    pc = "format_jobs" =>
        IF state_job_listings = <<>> \/ "error" \in DOMAIN state_job_listings[1]
        THEN state_job_listings' = state_job_listings
        ELSE /\ Len(state_job_listings') = Len(state_job_listings)
             /\ \A i \in 1..Len(state_job_listings) :
                   LET job == state_job_listings[i]
                       formatted == state_job_listings'[i]
                   IN  /\ DOMAIN formatted = {"title", "company", "location", "apply_link"}
                       /\ formatted.title = job.title
                       /\ formatted.company = job.company
                       /\ formatted.location = job.location
                       /\ SubSeq(formatted.apply_link, 1, Len(AnchorOpen) + Len(job.link))
                             = AnchorOpen \o job.link

\* C27: format_jobs keeps the listings it formats: for a list that is not
\* empty and whose first record has no "error" key, the output has the
\* length and the order of the input, each record keeps title, company
\* and location and has the link of its input record inside apply_link
\* and nowhere else; an empty list, or one that starts with an error
\* record, comes back as it went in.
C27_FormatPreserves == [][FormatPreserves]_vars

\* C27 witness: format_jobs has formatted two listings that Tavily gave.
C27_Witness ==
    /\ pc = "render"
    /\ returned_by = "tavily"
    /\ Len(result) = 2
    /\ Len(state_job_listings) = 2
    /\ \A i \in 1..2 :
          /\ state_job_listings[i].title = result[i].title
          /\ "apply_link" \in DOMAIN state_job_listings[i]

(* ----------------------------- the usage log -------------------------- *)
InCriticalSection(t) == log_pc[t] \in {"get_current_total_tokens", "writerow", "release"}

TotalsAreRunningSums ==
    \A i \in 1..Len(log_rows) :
        log_rows[i].Total_Tokens_Till_Now = SumTokens(SubSeq(log_rows, 1, i))

ReadSumAppendAtomic ==
    /\ \A t, u \in LogThreads : (InCriticalSection(t) /\ InCriticalSection(u)) => t = u
    /\ \A t \in LogThreads : InCriticalSection(t) => csv_lock = t
    /\ \A t \in LogThreads : log_pc[t] = "writerow" => current_total[t] = SumTokens(log_rows)

OneRowAtATime ==
    \/ log_rows' = log_rows
    \/ /\ Len(log_rows') = Len(log_rows) + 1
       /\ SubSeq(log_rows', 1, Len(log_rows)) = log_rows
       /\ csv_lock = log_rows'[Len(log_rows')].Thread

\* C28: for threads of one process that call log_api_usage at the same
\* time, reading the file, summing and appending are one step under
\* csv_lock: a row is appended only by the thread that holds the lock,
\* one row at a time, and the Total_Tokens_Till_Now of every row is the sum
\* of Tokens_Generated over the rows up to and including it.
C28_UsageLogAtomic == [](TotalsAreRunningSums /\ ReadSumAppendAtomic) /\ [][OneRowAtATime]_vars

\* C28 witness: two threads have each logged a row with tokens, and one
\* of them is waiting for the lock that the other holds.
C28_Witness ==
    /\ Len(log_rows) = 2
    /\ log_rows[1].Thread # log_rows[2].Thread
    /\ log_rows[1].Tokens_Generated > 0
    /\ log_rows[2].Tokens_Generated > 0
    /\ csv_lock # 0
    /\ \E t \in LogThreads : t # csv_lock /\ log_pc[t] = "with csv_lock"

(* ------------------------ pool and login (app.py) --------------------- *)
\* C29 as stated: after every handler, on every path, each connection
\* taken from DB_POOL has been put back: none is checked out.
C29_PoolBalanced == checked_out = 0

NewlyAuthenticated == ~authenticated /\ authenticated'

AuthenticatedByVerifyOnly ==
    NewlyAuthenticated =>
        /\ otp_sent
        /\ phone_number # None
        /\ verification_check' # None
        /\ verification_check'.to = phone_number
        /\ verification_check'.status = "approved"
        /\ username' # None
        /\ selected_tab = "Login" =>
              \E u \in users : u.phone_number = phone_number.s /\ username' = Str(u.username)
        /\ selected_tab = "Register" =>
              [username |-> username'.s, phone_number |-> phone_number.s] \in users'

LogoutResets ==
    (authenticated /\ ~authenticated') =>
        /\ username' = None
        /\ otp_sent' = FALSE

\* C30: whatever the visitor does (Send OTP, Verify OTP, change of tab,
\* Logout), authenticated turns True only in a Verify OTP step in which
\* Twilio approved the code for the phone number of the session and, on
\* the Login page, that number is registered; while authenticated is True
\* username is not None; Logout sets authenticated to False, username to
\* None and otp_sent to False.
C30_LoginStateMachine ==
    /\ [](authenticated => username # None)
    /\ [][AuthenticatedByVerifyOnly /\ LogoutResets]_vars

\* C30 witness: the registered number has just been verified on the
\* Login page and the session is logged in as its user.
C30_Witness ==
    /\ authenticated
    /\ username = Str(Ann)
    /\ phone_number = Str(Phone1)
    /\ verification_check = [to |-> Str(Phone1), status |-> "approved"]
    /\ temp_username = Unset
    /\ ~otp_sent

====
